---------------------------- MODULE Spec2Model ----------------------------
(***************************************************************************)
(* SearchCommand (quick search, debounce, mode switching, chat-history     *)
(* persistence), SearchAgent (chat surface) and useSearchAgent (chat hook) *)
(* of the searching-ui component library, as one state machine.            *)
(*                                                                         *)
(* Text is a sequence of one-character strings, so that trim() and join()  *)
(* are computed rather than assumed.  One action is one event-loop turn:   *)
(* an event handler (or timer / promise callback), the render it causes    *)
(* and the effects of that render.                                         *)
(***************************************************************************)
EXTENDS Integers, Sequences, FiniteSets, TLC

\* ------------------------------------------------------------------ bounds
MaxQueryLen == 2      \* longest text typed into the quick-search input
MaxInputLen == 1      \* longest text typed into the input box of SearchAgent
MaxInflight == 2      \* onSearch promises pending at once
MaxIds      == 2      \* chat messages created in one behaviour
MaxParts    == 2      \* parts streamed into one assistant message
MaxStored   == 2      \* messages of a history found in the store at mount

\* ------------------------------------------------------------------ text
Chars == {" ", "a"}

RECURSIVE TrimStart(_)
TrimStart(s) ==
    IF s = <<>> THEN <<>>
    ELSE IF Head(s) = " " THEN TrimStart(Tail(s)) ELSE s

RECURSIVE TrimEnd(_)
TrimEnd(s) ==
    IF s = <<>> THEN <<>>
    ELSE IF s[Len(s)] = " " THEN TrimEnd(SubSeq(s, 1, Len(s) - 1)) ELSE s

\* String.prototype.trim
Trim(s) == TrimEnd(TrimStart(s))

\* JavaScript truthiness of a string: "" is falsy, everything else truthy
Truthy(s) == s # <<>>


\* ------------------------------------------------------------------ data
Null      == "null"                   \* chatHistoryStorageKey = null
DefaultStorageKey == "search-chat-history"
Undefined == "undefined"              \* an absent object property
Limit     == 10                       \* prop limit, default value

SearchTypes == {"fulltext", "semantic"}   \* prop searchTypes (ids)

\* UIMessage parts.  A part is {type, text?, state?, output?}; a property
\* the part does not have reads as Undefined (text: as the empty text).
TextPart(t) == [type |-> "text", text |-> t, state |-> Undefined, output |-> Undefined]
ToolPart(st) ==
    [type |-> "tool-display_files", text |-> <<>>, state |-> st,
     output |-> IF st = "output-available" THEN "files" ELSE Undefined]
\* the part of a tool call that returned the empty string
EmptyOutputToolPart ==
    [type |-> "tool-display_files", text |-> <<>>, state |-> "output-available",
     output |-> ""]
StepStartPart == [type |-> "step-start", text |-> <<>>, state |-> Undefined, output |-> Undefined]

PartTypes == {"text", "tool-display_files", "step-start"}

\* part.type.startsWith("tool-")
StartsWithTool(type) == type \in {"tool-display_files"}

UserMessage(id, t) == [id |-> id, role |-> "user", parts |-> <<TextPart(t)>>]
AssistantMessage(id, ps) == [id |-> id, role |-> "assistant", parts |-> ps]

\* A result list the host's onSearch resolves with for a query: none, or one
\* result carrying the query it answers.
SearchResult(q) == [id |-> 1, title |-> q]
ResultLists(q) == {<<>>, <<SearchResult(q)>>}

\* ------------------------------------------------------------------ JSON
\* JSON.stringify of a message list: every object becomes the ordered list of
\* its own defined properties (an Undefined property is dropped); the text is
\* tagged so that it differs from the value it encodes.
\* (JsonPartWithoutState: the same, were the state of a part not written)
JsonPartWithoutState(p) ==
    <<<<"type", p.type>>>>
    \o (IF p.type = "text" THEN <<<<"text", p.text>>>> ELSE <<>>)
    \o (IF p.output # Undefined THEN <<<<"output", p.output>>>> ELSE <<>>)
JsonPart(p) ==
    <<<<"type", p.type>>>>
    \o (IF p.type = "text" THEN <<<<"text", p.text>>>> ELSE <<>>)
    \o (IF p.state # Undefined THEN <<<<"state", p.state>>>> ELSE <<>>)
    \o (IF p.output # Undefined THEN <<<<"output", p.output>>>> ELSE <<>>)

JsonMessage(m) ==
    <<m.id, m.role, [i \in 1..Len(m.parts) |-> JsonPart(m.parts[i])]>>

Stringify(msgs) ==
    [kind |-> "json", body |-> [i \in 1..Len(msgs) |-> JsonMessage(msgs[i])]]

\* property lookup in a parsed object: Undefined when the key is absent
JsonGet(obj, key) ==
    IF \E i \in 1..Len(obj) : obj[i][1] = key
    THEN obj[CHOOSE i \in 1..Len(obj) : obj[i][1] = key][2]
    ELSE Undefined

ParsePart(obj) ==
    [type   |-> JsonGet(obj, "type"),
     text   |-> IF JsonGet(obj, "type") = "text" THEN JsonGet(obj, "text") ELSE <<>>,
     state  |-> JsonGet(obj, "state"),
     output |-> JsonGet(obj, "output")]

ParseMessage(j) ==
    [id |-> j[1], role |-> j[2], parts |-> [i \in 1..Len(j[3]) |-> ParsePart(j[3][i])]]

\* JSON.parse of a stored text that is valid JSON
JsonParse(str) == [i \in 1..Len(str.body) |-> ParseMessage(str.body[i])]

NoItem  == [kind |-> "none", body |-> <<>>]      \* getItem returns null
Garbage == [kind |-> "garbage", body |-> <<>>]   \* a text JSON.parse throws on


\* ------------------------------------------------------------------ state
VARIABLES
    \* props of SearchCommand, fixed for one mounted instance
    enableAgentMode, chatHistoryStorageKey,
    \* SearchCommand
    mounted,            \* the mount effects have run
    open,               \* prop open, owned by the host
    query, results, isLoading, searchType, mode, agentQuery,
    chatHistory, isHydrated,
    sessionStorage,     \* the item stored under DefaultStorageKey
    timer,              \* the pending debounce timeout: <<>> or <<[q, st]>>
    inflight,           \* onSearch promises not yet settled, in issue order
    \* SearchAgent / useSearchAgent
    agentMounted,
    initialQuery, initialMessages,   \* props of the current render
    messages, status,                \* state of the Chat instance (useChat)
    initialQuerySent,                \* the one-shot latch (a ref)
    chatInit,           \* the messages the Chat instance was created with
    autoSends,          \* auto-sends of this hook instance so far (2: two or more)
    inputValue,
    nextId,             \* the id the chat SDK gives the next message it creates
    \* the calls the turn just taken made to host callbacks, to the chat SDK
    \* and to the store, in order
    calls

cmdVars == <<mounted, open, query, results, isLoading, searchType, mode,
             agentQuery, chatHistory, isHydrated, sessionStorage, timer, inflight>>
propVars == <<enableAgentMode, chatHistoryStorageKey>>
agentVars == <<agentMounted, initialQuery, initialMessages, messages, status,
               initialQuerySent, chatInit, autoSends, inputValue, nextId>>
vars == <<propVars, cmdVars, agentVars, calls>>

\* the calls of the last turn to the callback or SDK function `name`
CallsTo(name) ==
    SelectSeq(calls, LAMBDA c : c[1] = name)

\* ------------------------------------------------------------------ hook
\* isProcessing of useSearchAgent
IsProcessing(st) == st = "streaming" \/ st = "submitted"

\* useChat's sendMessage({text}): the SDK appends a user message holding the
\* text as its one text part and the status becomes "submitted"
\* (ChatSendTrimmed: the same, were the text trimmed first)
ChatSendTrimmed(msgs, text, id) == Append(msgs, UserMessage(id, Trim(text)))
ChatSend(msgs, text, id) == Append(msgs, UserMessage(id, text))

\* the condition of the auto-send effect
AutoSendDue(iq, latch, st, im) ==
    Truthy(iq) /\ ~latch /\ st = "ready" /\ im = <<>>

\* the condition of the sync effect, given that its dependencies changed
\* (SyncAlways: the same, were the length not tested)
SyncAlways(msgs) == TRUE
SyncDue(msgs) == msgs # <<>>

\* The two effects of useSearchAgent after a render with messages msgs, status
\* st, latch, and props iq (initialQuery) and im (initialMessages); `changed`
\* says that the messages dependency of the sync effect changed (or that this
\* is the mount).  An auto-send changes the messages, so the sync effect runs
\* once more after it.
HookEffects(msgs, st, latch, iq, im, changed, id) ==
    LET sync == changed /\ SyncDue(msgs)
        auto == AutoSendDue(iq, latch, st, im)
        sent == IF auto THEN ChatSend(msgs, iq, id) ELSE msgs
    IN  [messages  |-> sent,
         status    |-> IF auto THEN "submitted" ELSE st,
         latch     |-> IF auto THEN TRUE ELSE latch,
         auto      |-> auto,
         made      |-> (IF sync THEN << <<"onMessagesChange", msgs>> >> ELSE <<>>)
                       \o (IF auto
                           THEN << <<"autoSend", iq>>, <<"sendMessage", iq>> >>
                                \o (IF SyncDue(sent)
                                    THEN << <<"onMessagesChange", sent>> >> ELSE <<>>)
                           ELSE <<>>)]

\* the message lists a call sequence forwards to onMessagesChange, in order
Forwarded(cs) ==
    LET f == SelectSeq(cs, LAMBDA c : c[1] = "onMessagesChange")
    IN  [i \in 1..Len(f) |-> f[i][2]]


\* ------------------------------------------------------------------ SearchCommand
\* !searchQuery.trim()  /  query.trim() as a condition
\* (IsBlankNever: the same, were the test left out)
IsBlankNever(q) == FALSE
IsBlank(q) == ~Truthy(Trim(q))

\* if (chatHistoryStorageKey), in the hydration effect and in setChatHistory
\* (StorageNever: the same, were the store never used)
StorageNever == FALSE
StorageEnabled == chatHistoryStorageKey # Null

\* setChatHistory(messages): the part that writes the store
\* (StoreNotWritten: the same, were the write left out)
StoreNotWritten(msgs, store) == store
StoreAfterSet(msgs, store) ==
    IF StorageEnabled THEN Stringify(msgs) ELSE store
SetItemCalls(msgs) ==
    IF StorageEnabled
    THEN << <<"setItem", Stringify(msgs)>> >> ELSE <<>>

\* hasChatHistory
HasChatHistory == isHydrated /\ Len(chatHistory) > 0

\* The debounce effect after a render with query q, facet st and mode m.  Its
\* dependencies are query, performSearch (which changes with searchType), mode
\* and debounceMs; when one changed, the cleanup clears the pending timeout
\* and the effect, in quick mode, sets a new one that captures q and the
\* performSearch of this render.
\* (DebounceNoCleanup: the same, were the cleanup left out;
\*  DebounceIgnoresFacet: the same, were performSearch not a dependency;
\*  DebounceIgnoresMode: the same, were the mode not tested)
DebounceIgnoresMode(q, st, m) ==
    IF <<q, st, m>> = <<query, searchType, mode>> THEN timer
    ELSE <<[q |-> q, st |-> st]>>
DebounceIgnoresFacet(q, st, m) ==
    IF <<q, m>> = <<query, mode>> THEN timer
    ELSE IF m = "quick" THEN <<[q |-> q, st |-> st]>> ELSE <<>>
DebounceNoCleanup(q, st, m) ==
    IF <<q, st, m>> = <<query, searchType, mode>> THEN timer
    ELSE IF m = "quick" THEN Append(timer, [q |-> q, st |-> st]) ELSE timer
DebounceEffect(q, st, m) ==
    IF <<q, st, m>> = <<query, searchType, mode>> THEN timer
    ELSE IF m = "quick" THEN <<[q |-> q, st |-> st]>> ELSE <<>>

\* the values the reset effect sets when open is false
\* (ResetKeepsResults: the same, were setResults([]) left out)
ResetKeepsResults(r) == r
ResetResults(r) == <<>>
ResetQuery(q) == <<>>
ResetMode(m) == "quick"
ResetAgentQuery(q) == <<>>
\* the reset effect does not call setChatHistory
\* (ResetClearsHistory: the same, were the history reset too)
ResetClearsHistory(ch) == <<>>
ResetChatHistory(ch) == ch

\* SearchAgent is not rendered: its state is gone
AgentGone ==
    /\ agentMounted' = FALSE
    /\ messages' = <<>>
    /\ status' = "ready"
    /\ initialQuerySent' = FALSE
    /\ chatInit' = <<>>
    /\ autoSends' = 0
    /\ inputValue' = <<>>
    /\ nextId' = nextId

\* histories a previous page of the session may have left in the store
StoredMessage(i) ==
    IF i % 2 = 1 THEN UserMessage(0 - i, <<"a">>)
    ELSE AssistantMessage(0 - i, <<TextPart(<<"a", "a">>)>>)
StoredHistory(n) == [i \in 1..n |-> StoredMessage(i)]
InitialStores ==
    {NoItem, Garbage} \cup {Stringify(StoredHistory(n)) : n \in 0..MaxStored}

\* the state after the first render, before the mount effects, for a storage
\* key among `keys` and a store holding one of `stores`
InitWith(keys, stores) ==
    /\ enableAgentMode \in BOOLEAN
    /\ chatHistoryStorageKey \in keys
    /\ sessionStorage \in stores
    /\ mounted = FALSE
    /\ open = FALSE
    /\ query = <<>>
    /\ results = <<>>
    /\ isLoading = FALSE
    /\ searchType = "fulltext"
    /\ mode = "quick"
    /\ agentQuery = <<>>
    /\ chatHistory = <<>>
    /\ isHydrated = FALSE
    /\ timer = <<>>
    /\ inflight = <<>>
    /\ agentMounted = FALSE
    /\ initialQuery = <<>>
    /\ initialMessages = <<>>
    /\ messages = <<>>
    /\ status = "ready"
    /\ initialQuerySent = FALSE
    /\ chatInit = <<>>
    /\ autoSends = 0
    /\ inputValue = <<>>
    /\ nextId = 1
    /\ calls = <<>>

Init ==
    InitWith({DefaultStorageKey}, {NoItem, Stringify(StoredHistory(MaxStored))})

\* The mount effects, in the order they are declared: hydration from the
\* store, the debounce effect, the reset effect (open is false or true).
Mount ==
    /\ ~mounted
    /\ mounted' = TRUE
    /\ LET read   == StorageEnabled
           stored == sessionStorage
           parsed == IF read /\ stored.kind = "json" /\ stored # NoItem
                     THEN JsonParse(stored) ELSE chatHistory
       IN  /\ chatHistory' = parsed
           /\ initialMessages' = parsed
           /\ calls' = IF read THEN << <<"getItem", stored>> >> ELSE <<>>
    /\ isHydrated' = TRUE
    /\ timer' = IF mode = "quick" THEN <<[q |-> query, st |-> searchType]>> ELSE <<>>
    /\ UNCHANGED <<propVars, open, query, results, isLoading, searchType, mode,
                   agentQuery, sessionStorage, inflight>>
    /\ UNCHANGED <<agentMounted, initialQuery, messages, status,
                   initialQuerySent, chatInit, autoSends, inputValue, nextId>>

\* the host sets open to true; the reset effect runs and does nothing
OpenDialog ==
    /\ mounted /\ ~open
    /\ open' = TRUE
    /\ calls' = <<>>
    /\ UNCHANGED <<propVars, mounted, query, results, isLoading, searchType, mode,
                   agentQuery, chatHistory, isHydrated, sessionStorage, timer,
                   inflight, agentVars>>

\* open becomes false (the host follows onOpenChange(false)): the dialog
\* content, SearchAgent included, is no longer rendered, and the reset effect
\* sets query, results, mode and agentQuery; the debounce effect follows.
CloseNow(pre) ==
    /\ open' = FALSE
    /\ query' = ResetQuery(query)
    /\ results' = ResetResults(results)
    /\ mode' = ResetMode(mode)
    /\ agentQuery' = ResetAgentQuery(agentQuery)
    /\ timer' = DebounceEffect(query', searchType, mode')
    /\ AgentGone
    /\ initialQuery' = agentQuery'
    /\ chatHistory' = ResetChatHistory(chatHistory)
    /\ initialMessages' = chatHistory'
    /\ calls' = pre \o << <<"onOpenChange", FALSE>> >>
    /\ UNCHANGED <<propVars, mounted, isLoading, searchType,
                   isHydrated, sessionStorage, inflight>>

\* Escape, the close button or a click outside
CloseDialog ==
    /\ mounted /\ open
    /\ CloseNow(<<>>)

\* onValueChange / onChange of an input holding q: one keystroke appends a
\* character (up to max characters) or deletes the last one
Keystrokes(q, max) ==
    {Append(q, c) : c \in IF Len(q) < max THEN Chars ELSE {}}
    \cup (IF q = <<>> THEN {} ELSE {SubSeq(q, 1, Len(q) - 1)})

Type ==
    /\ mounted /\ open /\ mode = "quick"
    /\ \E s \in Keystrokes(query, MaxQueryLen) :
        /\ query' = s
        /\ timer' = DebounceEffect(s, searchType, mode)
        /\ calls' = <<>>
    /\ UNCHANGED <<propVars, mounted, open, results, isLoading, searchType, mode,
                   agentQuery, chatHistory, isHydrated, sessionStorage, inflight,
                   agentVars>>

\* a click on a search-type button
SetSearchType ==
    /\ mounted /\ open /\ mode = "quick"
    /\ \E t \in SearchTypes :
        /\ searchType' = t
        /\ timer' = DebounceEffect(query, t, mode)
        /\ calls' = <<>>
    /\ UNCHANGED <<propVars, mounted, open, query, results, isLoading, mode,
                   agentQuery, chatHistory, isHydrated, sessionStorage, inflight,
                   agentVars>>

\* A debounce timeout expires: performSearch(query) of the render that set
\* it, up to the await.  A blank query clears the results; any other query
\* sets the loading flag and calls onSearch.
TimerFire ==
    /\ mounted
    /\ \E i \in 1..Len(timer) :
        LET t == timer[i] IN
        /\ timer' = SubSeq(timer, 1, i - 1) \o SubSeq(timer, i + 1, Len(timer))
        /\ IF IsBlank(t.q)
           THEN /\ results' = <<>>
                /\ calls' = <<>>
                /\ UNCHANGED <<isLoading, inflight>>
           ELSE /\ Len(inflight) < MaxInflight
                /\ isLoading' = TRUE
                /\ inflight' = Append(inflight, [q |-> t.q])
                /\ calls' = << <<"onSearch", t.q, t.st, Limit>> >>
                /\ UNCHANGED results
    /\ UNCHANGED <<propVars, mounted, open, query, searchType, mode, agentQuery,
                   chatHistory, isHydrated, sessionStorage, agentVars>>

\* the results set when the onSearch call for query q resolves with r:
\* setResults(searchResults)
\* (ResolvedIfCurrent: the same, were a response for another query than the
\*  current one dropped)
ResolvedIfCurrent(r, q) == IF q = query THEN r ELSE results
ResolvedResults(r, q) == r

\* an onSearch promise resolves: the rest of the try block and the finally
SearchResolve ==
    /\ \E i \in 1..Len(inflight) : \E r \in ResultLists(inflight[i].q) :
        /\ results' = ResolvedResults(r, inflight[i].q)
        /\ isLoading' = FALSE
        /\ inflight' = SubSeq(inflight, 1, i - 1) \o SubSeq(inflight, i + 1, Len(inflight))
        /\ calls' = <<>>
    /\ UNCHANGED <<propVars, mounted, open, query, searchType, mode, agentQuery,
                   chatHistory, isHydrated, sessionStorage, timer, agentVars>>

\* the results the catch block of performSearch sets
\* (CatchKeepsResults: the same, were setResults([]) left out)
CatchKeepsResults(r) == r
CatchResults(r) == <<>>

\* an onSearch promise rejects: the catch block and the finally
SearchReject ==
    /\ \E i \in 1..Len(inflight) :
        /\ results' = CatchResults(results)
        /\ isLoading' = FALSE
        /\ inflight' = SubSeq(inflight, 1, i - 1) \o SubSeq(inflight, i + 1, Len(inflight))
        /\ calls' = << <<"console.error">> >>
    /\ UNCHANGED <<propVars, mounted, open, query, searchType, mode, agentQuery,
                   chatHistory, isHydrated, sessionStorage, timer, agentVars>>

\* handleSelect: a result item is chosen (the list shows when not loading)
Select ==
    /\ mounted /\ open /\ mode = "quick"
    /\ ~isLoading /\ Len(results) > 0
    /\ \E i \in 1..Len(results) :
        CloseNow(<< <<"onResultSelect", results[i]>> >>)


\* ------------------------------------------------------------------ SearchAgent in SearchCommand
\* handleMessagesChange -> setChatHistory: every list forwarded to
\* onMessagesChange is followed by the write of the store
RECURSIVE WithSetItem(_)
WithSetItem(cs) ==
    IF cs = <<>> THEN <<>>
    ELSE IF Head(cs)[1] = "onMessagesChange"
         THEN <<Head(cs)>> \o SetItemCalls(Head(cs)[2]) \o WithSetItem(Tail(cs))
         ELSE <<Head(cs)>> \o WithSetItem(Tail(cs))

Saturate(n) == IF n >= 2 THEN 2 ELSE n

\* The render and the effects that end a turn in which SearchAgent is
\* rendered inside SearchCommand.  The handler of the turn left the chat
\* history ch1 (store store1), the chat messages msgs1 with status st1, the
\* latch latch1 and the input text input1, and made the calls `pre`;
\* SearchAgent is rendered with initialQuery = agentQuery (iq) and
\* initialMessages = chatHistory, and what the hook forwards to
\* onMessagesChange becomes the chat history.
EmbeddedCommit(pre, ch1, store1, msgs1, st1, latch1, input1, iq, changed, id1) ==
    LET e  == HookEffects(msgs1, st1, latch1, iq, ch1, changed, id1)
        fw == Forwarded(e.made)
        ch2 == IF fw = <<>> THEN ch1 ELSE fw[Len(fw)]
    IN  /\ e.auto => id1 <= MaxIds
        /\ agentMounted' = TRUE
        /\ messages' = e.messages
        /\ status' = e.status
        /\ initialQuerySent' = e.latch
        /\ autoSends' = IF e.auto THEN Saturate(autoSends + 1) ELSE autoSends
        /\ inputValue' = input1
        /\ nextId' = IF e.auto THEN id1 + 1 ELSE id1
        /\ chatHistory' = ch2
        /\ sessionStorage' = IF fw = <<>> THEN store1 ELSE StoreAfterSet(ch2, store1)
        /\ initialQuery' = iq
        /\ initialMessages' = ch2
        /\ calls' = pre \o WithSetItem(e.made)

\* the condition under which Enter (or "Try AI search") enters agent mode:
\* the onKeyDown guard and the guard of handleEnterPress
EnterSwitches == ~IsBlank(query) /\ mode = "quick" /\ enableAgentMode

\* the chat history handleEnterPress sets: setChatHistory([])
\* (EnterKeepsHistory: the same, were the history left as it is)
EnterKeepsHistory(ch) == ch
EnterHistory(ch) == <<>>

\* Enter in the quick-search input.  SearchAgent is mounted with a new Chat
\* whose messages are the initialMessages of that first render.
EnterPress ==
    /\ mounted /\ open /\ mode = "quick"
    /\ IF EnterSwitches
       THEN /\ agentQuery' = query
            /\ mode' = "agent"
            /\ timer' = DebounceEffect(query, searchType, "agent")
            /\ chatInit' = EnterHistory(chatHistory)
            /\ autoSends = 0
            /\ EmbeddedCommit(SetItemCalls(EnterHistory(chatHistory)),
                              EnterHistory(chatHistory),
                              StoreAfterSet(EnterHistory(chatHistory), sessionStorage),
                              EnterHistory(chatHistory), "ready", FALSE, <<>>,
                              query, TRUE, nextId)
            /\ UNCHANGED <<propVars, mounted, open, query, results, isLoading,
                           searchType, isHydrated, inflight>>
       ELSE /\ calls' = <<>>
            /\ UNCHANGED <<propVars, cmdVars, agentVars>>

\* the guard of the Resume Chat button
\* (ResumeWithoutFlag: the same, were enableAgentMode not tested;
\*  ResumeAlways: the same, were the button always rendered)
ResumeWithoutFlag == HasChatHistory
ResumeAlways == TRUE
ResumeAvailable == enableAgentMode /\ HasChatHistory

\* handleResumeChat
ResumeChat ==
    /\ mounted /\ open /\ mode = "quick"
    /\ ResumeAvailable
    /\ agentQuery' = <<>>
    /\ mode' = "agent"
    /\ timer' = DebounceEffect(query, searchType, "agent")
    /\ chatInit' = chatHistory
    /\ autoSends = 0
    /\ EmbeddedCommit(<<>>, chatHistory, sessionStorage,
                      chatHistory, "ready", FALSE, <<>>, <<>>, TRUE, nextId)
    /\ UNCHANGED <<propVars, mounted, open, query, results, isLoading,
                   searchType, isHydrated, inflight>>

\* the seed query handleBackToQuick sets: setAgentQuery("")
\* (BackKeepsAgentQuery: the same, were the seed query left as it is)
BackKeepsAgentQuery(q) == q
BackAgentQuery(q) == <<>>

\* handleBackToQuick, from the Back button of SearchAgent
BackToQuick ==
    /\ mounted /\ open /\ mode = "agent" /\ agentMounted
    /\ mode' = "quick"
    /\ agentQuery' = BackAgentQuery(agentQuery)
    /\ timer' = DebounceEffect(query, searchType, "quick")
    /\ AgentGone
    /\ initialQuery' = <<>>
    /\ initialMessages' = chatHistory
    /\ calls' = << <<"onBack">> >>
    /\ UNCHANGED <<propVars, mounted, open, query, results, isLoading, searchType,
                   chatHistory, isHydrated, sessionStorage, inflight>>

\* the chat history handleClearChatHistory sets: setChatHistory([])
\* (ClearKeepsHistory: the same, were the history left as it is)
ClearKeepsHistory(ch) == ch
ClearedHistory(ch) == <<>>

\* handleClearHistory of SearchAgent -> handleClearChatHistory; the Clear
\* button shows while the hook has messages
ClearChatHistory ==
    /\ mounted /\ open /\ mode = "agent" /\ agentMounted
    /\ Len(messages) > 0
    /\ EmbeddedCommit(
                      << <<"onClearHistory">> >>
                          \o SetItemCalls(ClearedHistory(chatHistory)),
                      ClearedHistory(chatHistory),
                      StoreAfterSet(ClearedHistory(chatHistory), sessionStorage),
                      messages, status, initialQuerySent, inputValue,
                      agentQuery, FALSE, nextId)
    /\ UNCHANGED <<propVars, mounted, open, query, results, isLoading, searchType,
                   mode, agentQuery, isHydrated, timer, inflight, chatInit>>


\* ------------------------------------------------------------------ useSearchAgent helpers
\* getTextContent: the texts of the text parts, joined in order
RECURSIVE JoinTexts(_)
JoinTexts(parts) ==
    IF parts = <<>> THEN <<>>
    ELSE (IF Head(parts).type = "text" THEN Head(parts).text ELSE <<>>)
         \o JoinTexts(Tail(parts))

GetTextContent(m) == JoinTexts(m.parts)

\* getToolCalls: the parts whose type starts with "tool-"
GetToolCalls(m) == SelectSeq(m.parts, LAMBDA p : StartsWithTool(p.type))

\* hasContent
\* (HasContentUntrimmed: the same, were the text not trimmed)
HasContentUntrimmed(m) ==
    Len(GetTextContent(m)) > 0 \/ Len(GetToolCalls(m)) > 0
HasContent(m) ==
    Len(Trim(GetTextContent(m))) > 0 \/ Len(GetToolCalls(m)) > 0

\* prev.findIndex((m) => m.id === messageId), 1-based; 0 when there is none
FindIndex(msgs, id) ==
    IF \E i \in 1..Len(msgs) : msgs[i].id = id
    THEN CHOOSE i \in 1..Len(msgs) :
            /\ msgs[i].id = id
            /\ \A j \in 1..(i - 1) : msgs[j].id # id
    ELSE 0

\* deleteMessageAndAfter: the updater given to setMessages
\* (DeleteAfterOnly: the same, were the message itself kept;
\*  DeleteNothing: the same, were nothing removed)
DeleteAfterOnly(msgs, id) ==
    LET idx == FindIndex(msgs, id)
    IN  IF idx = 0 THEN msgs ELSE SubSeq(msgs, 1, idx)
DeleteNothing(msgs, id) == msgs
DeleteMessageAndAfter(msgs, id) ==
    LET idx == FindIndex(msgs, id)
    IN  IF idx = 0 THEN msgs ELSE SubSeq(msgs, 1, idx - 1)

\* ------------------------------------------------------------------ SearchAgent
\* showLoadingIndicator
\* (LoadingIgnoresContent: the same, were hasContent not consulted)
LoadingIgnoresContent(msgs, st) ==
    IF ~IsProcessing(st) THEN FALSE
    ELSE IF Len(msgs) = 0 THEN TRUE
    ELSE TRUE
ShowLoadingIndicator(msgs, st) ==
    IF ~IsProcessing(st) THEN FALSE
    ELSE IF Len(msgs) = 0 THEN TRUE
    ELSE IF msgs[Len(msgs)].role = "user" THEN TRUE
    ELSE ~HasContent(msgs[Len(msgs)])

\* the parts the chat SDK may stream into an assistant message
PartChoices ==
    {TextPart(<<" ">>), TextPart(<<"a">>), ToolPart("input-available"),
     ToolPart("output-available"), EmptyOutputToolPart, StepStartPart}
EmbeddedPartChoices == {TextPart(<<"a">>), ToolPart("output-available")}

\* What a handler of SearchAgent, or an event of the chat SDK, does to the
\* state of the agent before the next render: the calls it makes,
\* the messages, status and input text it leaves, whether the messages
\* changed, and how many message ids it used.
Outcome(pre, msgs, st, input, changed, ids) ==
    [pre |-> pre, msgs |-> msgs, st |-> st, input |-> input,
     changed |-> changed, ids |-> ids]

\* onChange of the input box (disabled while processing)
TypeInputOutcomes ==
    IF IsProcessing(status) THEN {}
    ELSE {Outcome(<<>>, messages, status, s, FALSE, 0) :
            s \in Keystrokes(inputValue, MaxInputLen)}

\* handleKeyDown (Enter without Shift) and handleSubmit
\* (SubmitIgnoresProcessing: the same, were isProcessing not tested)
SubmitIgnoresProcessing(input, st) == Truthy(Trim(input))
SubmitSends(input, st) == Truthy(Trim(input)) /\ ~IsProcessing(st)

SubmitOutcomes ==
    IF SubmitSends(inputValue, status)
    THEN {Outcome(<< <<"sendMessage", inputValue>> >>,
                  ChatSend(messages, inputValue, nextId), "submitted", <<>>, TRUE, 1)}
    ELSE {Outcome(<<>>, messages, status, inputValue, FALSE, 0)}

\* the chat SDK: the response starts (an assistant message with no parts
\* yet), a part arrives, the response ends, the request fails
ChatStartOutcomes ==
    IF status = "submitted"
    THEN {Outcome(<<>>, Append(messages, AssistantMessage(nextId, <<>>)),
                  "streaming", inputValue, TRUE, 1)}
    ELSE {}

ChatDeltaOutcomes(choices) ==
    IF /\ status = "streaming"
       /\ Len(messages) > 0
       /\ messages[Len(messages)].role = "assistant"
       /\ Len(messages[Len(messages)].parts) < MaxParts
    THEN {Outcome(<<>>,
                  [messages EXCEPT ![Len(messages)].parts = Append(@, p)],
                  "streaming", inputValue, TRUE, 0) : p \in choices}
    ELSE {}

ChatFinishOutcomes ==
    IF status = "streaming"
    THEN {Outcome(<<>>, messages, "ready", inputValue, FALSE, 0)}
    ELSE {}

ChatErrorOutcomes ==
    IF IsProcessing(status)
    THEN {Outcome(<<>>, messages, "error", inputValue, FALSE, 0)}
    ELSE {}

\* the Stop button (shown while processing): chat.stop()
StopOutcomes ==
    IF IsProcessing(status)
    THEN {Outcome(<< <<"stop">> >>, messages, "ready", inputValue, FALSE, 0)}
    ELSE {}

\* the actions a tool-result renderer may dispatch through onAction
ToolActions ==
    {[type |-> t, payload |-> p] : t \in {"navigate", "open"}, p \in {"/a", "/b"}}

\* tool.output as a condition: undefined and the empty string are falsy
OutputTruthy(o) == o # Undefined /\ o # ""

\* What MessageBubble renders for one tool call of an assistant message,
\* given whether toolResultRenderers has a renderer for its tool name: the
\* renderer with the output and onToolAction as onAction, or the default
\* indicator with a check mark or a spinner.
RenderToolCall(tool, registered) ==
    IF registered /\ tool.state = "output-available" /\ OutputTruthy(tool.output)
    THEN [kind |-> "renderer", output |-> tool.output, onAction |-> "onToolAction"]
    ELSE [kind |-> "indicator",
          mark |-> IF tool.state = "output-available" THEN "check" ELSE "spinner"]

\* the tool calls MessageBubble renders for a message: none for a user
\* message, the parts whose type starts with "tool-" otherwise
BubbleToolCalls(m) ==
    IF m.role = "user" THEN <<>>
    ELSE SelectSeq(m.parts, LAMBDA p : StartsWithTool(p.type))

\* a tool-result renderer is on screen: a renderer is registered and some
\* tool call of some message is rendered by it
ToolRendered(msgs) ==
    \E i \in 1..Len(msgs) : \E k \in 1..Len(BubbleToolCalls(msgs[i])) :
        RenderToolCall(BubbleToolCalls(msgs[i])[k], TRUE).kind = "renderer"

\* handleToolAction: the calls it makes for an action, given whether the host
\* passed onNavigate (onClose and onToolAction are called if passed)
\* (HandleToolActionCloseFirst: the same, were onClose called first;
\*  HandleToolActionAlwaysCloses: the same, were the type not tested)
HandleToolActionCloseFirst(action, hasNavigate) ==
    (IF action.type = "navigate" /\ hasNavigate
     THEN << <<"onClose">>, <<"onNavigate", action.payload>> >> ELSE <<>>)
    \o << <<"onToolAction", action>> >>
HandleToolActionAlwaysCloses(action, hasNavigate) ==
    (IF hasNavigate
     THEN << <<"onNavigate", action.payload>>, <<"onClose">> >> ELSE <<>>)
    \o << <<"onToolAction", action>> >>
HandleToolAction(action, hasNavigate) ==
    (IF action.type = "navigate" /\ hasNavigate
     THEN << <<"onNavigate", action.payload>>, <<"onClose">> >> ELSE <<>>)
    \o << <<"onToolAction", action>> >>

\* a tool-result renderer dispatches an action
ToolActionOutcomes ==
    IF ToolRendered(messages)
    THEN {Outcome(<< <<"toolAction", a, n>> >> \o HandleToolAction(a, n),
                  messages, status, inputValue, FALSE, 0) :
            a \in ToolActions, n \in BOOLEAN}
    ELSE {}

\* the Regenerate button of MessageActions is disabled while processing
\* (RegenerateNeverDisabled: the same, were the button always enabled)
RegenerateNeverDisabled(processing) == FALSE
RegenerateDisabled(processing) == processing

\* Regenerate on the message at index i.  The index of the user message whose
\* text is sent again: i itself for a user message, the nearest user message
\* before i for an assistant message, 0 when there is none.
RegenerateSource(msgs, i) ==
    IF msgs[i].role = "user" THEN i
    ELSE IF \E j \in 1..(i - 1) : msgs[j].role = "user"
         THEN CHOOSE j \in 1..(i - 1) :
                /\ msgs[j].role = "user"
                /\ \A k \in (j + 1)..(i - 1) : msgs[k].role # "user"
         ELSE 0

\* the handler of the regenerate action: truncate, send again, notify
RegenerateOutcomes ==
    IF RegenerateDisabled(IsProcessing(status)) THEN {}
    ELSE {LET j    == RegenerateSource(messages, i)
              text == GetTextContent(messages[j])
              kept == DeleteMessageAndAfter(messages, messages[j].id)
          IN  Outcome(<< <<"regenerate", i>>,
                         <<"setMessages", kept>>,
                         <<"sendMessage", text>>,
                         <<"onMessageRegenerate", messages[i].id, text>> >>,
                      ChatSend(kept, text, nextId), "submitted", inputValue, TRUE, 1)
          : i \in {k \in 1..Len(messages) :
                     /\ messages[k].role = "assistant" => HasContent(messages[k])
                     /\ RegenerateSource(messages, k) # 0}}

\* an agent turn while SearchAgent is rendered inside SearchCommand
EmbeddedAgent(outcomes) ==
    /\ mounted /\ open /\ mode = "agent" /\ agentMounted
    /\ \E o \in outcomes :
        /\ nextId + o.ids - 1 <= MaxIds
        /\ EmbeddedCommit(o.pre, chatHistory, sessionStorage, o.msgs,
                          o.st, initialQuerySent, o.input, agentQuery, o.changed,
                          nextId + o.ids)
    /\ UNCHANGED <<propVars, mounted, open, query, results, isLoading, searchType,
                   mode, agentQuery, isHydrated, timer, inflight, chatInit>>

AgentType == EmbeddedAgent(TypeInputOutcomes)
AgentSubmit == EmbeddedAgent(SubmitOutcomes)
ChatStart == EmbeddedAgent(ChatStartOutcomes)
ChatDelta == EmbeddedAgent(ChatDeltaOutcomes(EmbeddedPartChoices))
ChatFinish == EmbeddedAgent(ChatFinishOutcomes)
ChatError == EmbeddedAgent(ChatErrorOutcomes)
AgentStop == EmbeddedAgent(StopOutcomes)
AgentRegenerate == EmbeddedAgent(RegenerateOutcomes)

\* A tool action while SearchAgent is rendered inside SearchCommand: onClose
\* is handleClose, which asks the host to close the dialog.
AgentToolAction ==
    /\ mounted /\ open /\ mode = "agent" /\ agentMounted
    /\ \E o \in ToolActionOutcomes :
        IF \E i \in 1..Len(o.pre) : o.pre[i][1] = "onClose"
        THEN CloseNow(o.pre)
        ELSE /\ EmbeddedCommit(o.pre, chatHistory, sessionStorage, o.msgs,
                               o.st, initialQuerySent, o.input, agentQuery,
                               o.changed, nextId)
             /\ UNCHANGED <<propVars, mounted, open, query, results, isLoading,
                            searchType, mode, agentQuery, isHydrated, timer,
                            inflight, chatInit>>

Next ==
    \/ Mount
    \/ OpenDialog
    \/ CloseDialog
    \/ Type
    \/ SetSearchType
    \/ TimerFire
    \/ SearchResolve
    \/ SearchReject
    \/ Select
    \/ EnterPress
    \/ ResumeChat
    \/ BackToQuick
    \/ ClearChatHistory

Spec == Init /\ [][Next]_vars


\* ------------------------------------------------------------------ SearchAgent on its own
\* SearchAgent rendered by a host other than SearchCommand: initialQuery and
\* initialMessages are props the host owns, and onMessagesChange is a host
\* callback.  The SearchCommand variables keep their initial values.
hostVars == <<propVars, cmdVars>>

\* conversations the host may pass as initialMessages
Conversations == {<<>>, StoredHistory(MaxStored)}

InitAgent ==
    /\ enableAgentMode = FALSE
    /\ chatHistoryStorageKey = Null
    /\ sessionStorage = NoItem
    /\ mounted = FALSE
    /\ open = FALSE
    /\ query = <<>>
    /\ results = <<>>
    /\ isLoading = FALSE
    /\ searchType = "fulltext"
    /\ mode = "quick"
    /\ agentQuery = <<>>
    /\ chatHistory = <<>>
    /\ isHydrated = FALSE
    /\ timer = <<>>
    /\ inflight = <<>>
    /\ agentMounted = FALSE
    /\ initialQuery \in {<<>>, <<"a">>}
    /\ initialMessages \in Conversations
    /\ messages = <<>>
    /\ status = "ready"
    /\ initialQuerySent = FALSE
    /\ chatInit = <<>>
    /\ autoSends = 0
    /\ inputValue = <<>>
    /\ nextId = 1
    /\ calls = <<>>

\* the render and the effects that end a turn of a SearchAgent on its own,
\* rendered with the props iq and im
StandaloneCommit(pre, msgs1, st1, latch1, input1, iq, im, changed, id1) ==
    LET e == HookEffects(msgs1, st1, latch1, iq, im, changed, id1)
    IN  /\ e.auto => id1 <= MaxIds
        /\ agentMounted' = TRUE
        /\ messages' = e.messages
        /\ status' = e.status
        /\ initialQuerySent' = e.latch
        /\ autoSends' = IF e.auto THEN Saturate(autoSends + 1) ELSE autoSends
        /\ inputValue' = input1
        /\ nextId' = IF e.auto THEN id1 + 1 ELSE id1
        /\ initialQuery' = iq
        /\ initialMessages' = im
        /\ calls' = pre \o e.made

\* the first render: useMemo creates the Chat with messages: initialMessages
AgentMount ==
    /\ ~agentMounted
    /\ chatInit' = initialMessages
    /\ StandaloneCommit(<<>>, initialMessages, "ready", FALSE, <<>>,
                        initialQuery, initialMessages, TRUE, nextId)
    /\ UNCHANGED hostVars

\* the host renders SearchAgent again with another initialMessages prop
HostSetInitialMessages ==
    /\ agentMounted
    /\ \E im \in Conversations :
        /\ im # initialMessages
        /\ StandaloneCommit(<<>>, messages, status, initialQuerySent, inputValue,
                            initialQuery, im, FALSE, nextId)
    /\ UNCHANGED <<hostVars, chatInit>>

StandaloneAgent(outcomes) ==
    /\ agentMounted
    /\ \E o \in outcomes :
        /\ nextId + o.ids - 1 <= MaxIds
        /\ StandaloneCommit(o.pre, o.msgs, o.st, initialQuerySent, o.input,
                            initialQuery, initialMessages, o.changed,
                            nextId + o.ids)
    /\ UNCHANGED <<hostVars, chatInit>>

SaType == StandaloneAgent(TypeInputOutcomes)
SaSubmit == StandaloneAgent(SubmitOutcomes)
SaChatStart == StandaloneAgent(ChatStartOutcomes)
SaChatDelta == StandaloneAgent(ChatDeltaOutcomes(PartChoices))
SaChatFinish == StandaloneAgent(ChatFinishOutcomes)
SaChatError == StandaloneAgent(ChatErrorOutcomes)
SaStop == StandaloneAgent(StopOutcomes)
SaRegenerate == StandaloneAgent(RegenerateOutcomes)
SaToolAction == StandaloneAgent(ToolActionOutcomes)

\* clearMessages of the hook: setMessages([])
ClearMessagesOutcomes ==
    IF messages # <<>>
    THEN {Outcome(<< <<"clearMessages">> >>, <<>>, status, inputValue, TRUE, 0)}
    ELSE {}

\* deleteMessageAndAfter of the hook, called on its own for a message
TruncateOutcomes ==
    {Outcome(<< <<"deleteMessageAndAfter", messages[i].id>> >>,
             DeleteMessageAndAfter(messages, messages[i].id),
             status, inputValue, TRUE, 0) : i \in 1..Len(messages)}

SaClearMessages == StandaloneAgent(ClearMessagesOutcomes)
SaDeleteMessageAndAfter == StandaloneAgent(TruncateOutcomes)

NextAgent ==
    \/ AgentMount
    \/ HostSetInitialMessages
    \/ SaType
    \/ SaSubmit
    \/ SaChatStart
    \/ SaChatDelta
    \/ SaChatFinish
    \/ SaChatError
    \/ SaStop
    \/ SaRegenerate
    \/ SaToolAction
    \/ SaClearMessages
    \/ SaDeleteMessageAndAfter

SpecAgent == InitAgent /\ [][NextAgent]_vars


\* ------------------------------------------------------------------ the chat in SearchCommand
\* SearchCommand with the conversation of its embedded SearchAgent and the
\* session store, for a storage key that is set or null and a store that
\* holds nothing, a text that is not JSON, or a history.  The quick search
\* itself (timer expiry, onSearch) is left to Spec.
InitChat ==
    InitWith({DefaultStorageKey, Null},
             {NoItem, Garbage, Stringify(StoredHistory(MaxStored))})

\* The page is loaded again in the same browser session: the component is
\* gone with all its state, the session store stays, and SearchCommand is
\* rendered anew (its mount effects are the next step).
Reload ==
    /\ mounted
    /\ mounted' = FALSE
    /\ open' = FALSE
    /\ query' = <<>>
    /\ results' = <<>>
    /\ isLoading' = FALSE
    /\ searchType' = "fulltext"
    /\ mode' = "quick"
    /\ agentQuery' = <<>>
    /\ chatHistory' = <<>>
    /\ isHydrated' = FALSE
    /\ timer' = <<>>
    /\ inflight' = <<>>
    /\ AgentGone
    /\ initialQuery' = <<>>
    /\ initialMessages' = <<>>
    /\ calls' = <<>>
    /\ UNCHANGED <<propVars, sessionStorage>>

NextChat ==
    \/ Mount
    \/ Reload
    \/ OpenDialog
    \/ CloseDialog
    \/ Type
    \/ EnterPress
    \/ ResumeChat
    \/ BackToQuick
    \/ ClearChatHistory
    \/ AgentType
    \/ AgentSubmit
    \/ ChatStart
    \/ ChatDelta
    \/ ChatFinish
    \/ ChatError
    \/ AgentStop
    \/ AgentRegenerate
    \/ AgentToolAction

SpecChat == InitChat /\ [][NextChat]_vars


\* ------------------------------------------------------------------ properties: SearchCommand
\* a debounce timeout expired in this step: the pending timeout is gone
\* although none of the dependencies of the debounce effect changed
TimerExpired ==
    /\ timer # <<>>
    /\ timer' = <<>>
    /\ <<query', searchType', mode'>> = <<query, searchType, mode>>

\* an onSearch promise settled in this step
SearchSettled == Len(inflight') < Len(inflight)

\* C1: in Quick mode every change of the query to a non-blank text replaces
\* the pending debounce timeout by one for the text just typed, so at most one
\* timeout is pending and it carries the current query and facet; when it
\* expires onSearch is called exactly once, with the most recently typed
\* query, and nothing is left pending that could call it again before the
\* next change.  No call is made for an intermediate text.
C1_DebounceCallsOnceWithLatestQuery ==
    /\ [](/\ Len(timer) <= 1
          /\ timer # <<>> =>
                /\ mode = "quick"
                /\ timer[1] = [q |-> query, st |-> searchType])
    /\ [][/\ (query' # query /\ Trim(query') # <<>>) =>
                /\ mode' = "quick"
                /\ timer' = <<[q |-> query', st |-> searchType']>>
          /\ (TimerExpired /\ Trim(query) # <<>>) =>
                calls' = << <<"onSearch", query, searchType, Limit>> >>
          /\ (\E i \in 1..Len(calls') : calls'[i][1] = "onSearch") =>
                /\ TimerExpired
                /\ calls' = << <<"onSearch", query, searchType, Limit>> >>
                /\ mode = "quick"]_vars

\* C1 witness: two keystrokes, "a" then "aa", and one pause: the one call made
\* is for "aa" and it is the only promise pending
C1_Witness ==
    /\ query = <<"a", "a">>
    /\ calls = << <<"onSearch", <<"a", "a">>, searchType, Limit>> >>
    /\ inflight = <<[q |-> <<"a", "a">>]>>
    /\ timer = <<>>

\* C2 as stated: the expiry for a blank query clears the results and calls
\* nothing, and whenever the query is empty and no timeout is pending the
\* results are empty
C2_EmptyQueryMeansNoResults ==
    (query = <<>> /\ timer = <<>>) => results = <<>>

\* C2 amended: when the debounce timeout expires for an empty or
\* whitespace-only query the results become empty and onSearch is not called;
\* while the query is blank and no timeout is pending, empty results become
\* non-empty only when an onSearch promise issued earlier resolves.
C2_BlankExpiryClearsAndLateResponseOverwrites ==
    [][/\ (TimerExpired /\ Trim(query) = <<>>) =>
                /\ results' = <<>>
                /\ calls' = <<>>
                /\ inflight' = inflight
       /\ (Trim(query) = <<>> /\ timer = <<>> /\ results = <<>> /\ results' # <<>>) =>
                SearchSettled]_vars

\* C2 witness: a whitespace-only query whose timeout has expired, and results
\* that a response to an earlier query brought afterwards
C2_Witness ==
    /\ open
    /\ query = <<" ">>
    /\ timer = <<>>
    /\ inflight = <<>>
    /\ results = <<SearchResult(<<"a">>)>>

\* C3 as stated: whenever the dialog is reopened after it was closed, the
\* query is empty, the results are empty, the mode is Quick and the agent seed
\* query is empty
C3_DefaultsSeenAtReopen ==
    [][(~open /\ open') =>
            /\ query' = <<>>
            /\ results' = <<>>
            /\ mode' = "quick"
            /\ agentQuery' = <<>>]_vars

\* C3 amended: the step that closes the dialog leaves the query empty, the
\* results empty, the mode Quick and the agent seed query empty; until the
\* dialog is reopened and in the step that reopens it, the query, the mode and
\* the seed keep these values, and the results stay empty unless an onSearch
\* promise issued before the close resolves in the meantime.
C3_CloseResetsAndLateResponseOverwrites ==
    /\ [](~open => (query = <<>> /\ mode = "quick" /\ agentQuery = <<>>))
    /\ [][/\ (open /\ ~open') =>
                /\ query' = <<>>
                /\ results' = <<>>
                /\ mode' = "quick"
                /\ agentQuery' = <<>>
          /\ (~open /\ results = <<>> /\ results' # <<>>) => SearchSettled
          /\ (~open /\ open') =>
                /\ query' = <<>>
                /\ results' = results
                /\ mode' = "quick"
                /\ agentQuery' = <<>>]_vars

\* C3 witness: the dialog was closed while a search was pending, and the
\* response arrived before it was reopened
C3_Witness ==
    /\ mounted
    /\ ~open
    /\ inflight = <<>>
    /\ results = <<SearchResult(<<"a">>)>>
    /\ calls = <<>>

\* C4: with enableAgentMode, Enter in Quick mode on a query that is not blank
\* switches to Agent mode with the typed query, untrimmed, as the seed, and
\* the chat of that session starts with one user message, sent by the hook,
\* whose text is that query.
C4_EnterSeedsAgentWithQuery ==
    [][(EnterPress /\ enableAgentMode /\ Trim(query) # <<>>) =>
            /\ mode' = "agent"
            /\ agentQuery' = query
            /\ initialQuery' = query
            /\ Len(messages') = 1
            /\ messages'[1].role = "user"
            /\ GetTextContent(messages'[1]) = query
            /\ SelectSeq(calls', LAMBDA c : c[1] = "sendMessage")
                    = << <<"sendMessage", query>> >>]_vars

\* C4 witness: Enter on the query " a"
C4_Witness ==
    /\ mode = "agent"
    /\ agentQuery = <<" ", "a">>
    /\ Len(messages) = 1
    /\ GetTextContent(messages[1]) = <<" ", "a">>
    /\ status = "submitted"
    /\ <<"sendMessage", <<" ", "a">>>> = calls[Len(calls) - 2]

\* C5: without enableAgentMode the mode is Quick in every reachable state
C5_NoAgentModeWithoutFlag ==
    ~enableAgentMode => (mode = "quick" /\ ~agentMounted)

\* C5 witness: agent mode is off, a chat history was found in the store, the
\* dialog was closed by a selection and reopened, and a query is typed whose
\* results came
C5_Witness ==
    /\ ~enableAgentMode
    /\ open
    /\ HasChatHistory
    /\ Trim(query) # <<>>
    /\ results # <<>>
    /\ mode = "quick"

\* ------------------------------------------------------------------ properties: SearchAgent
\* the calls of the step just taken that have the given name
NewCallsTo(name) == SelectSeq(calls', LAMBDA c : c[1] = name)

\* the step just taken is Regenerate on the message at index i
RegeneratedAt(i) ==
    /\ i \in 1..Len(messages)
    /\ calls' # <<>>
    /\ calls'[1] = <<"regenerate", i>>

\* the list is cut to `kept`, `text` is sent again as a new user message
\* after it, and the host is told (id, text)
TruncatedAndResent(kept, text, id) ==
    /\ NewCallsTo("setMessages") = << <<"setMessages", kept>> >>
    /\ NewCallsTo("sendMessage") = << <<"sendMessage", text>> >>
    /\ NewCallsTo("onMessageRegenerate") = << <<"onMessageRegenerate", id, text>> >>
    /\ Len(messages') = Len(kept) + 1
    /\ SubSeq(messages', 1, Len(kept)) = kept
    /\ messages'[Len(messages')].role = "user"
    /\ messages'[Len(messages')].parts = <<TextPart(text)>>
    /\ \A k \in 1..Len(kept) : messages'[Len(messages')].id # kept[k].id

\* C6: Regenerate on the user message at index i leaves the messages before i
\* unchanged and in order, removes those from i on, sends the text of message
\* i as a new user message, and calls onMessageRegenerate with the id and the
\* text of message i.
C6_RegenerateUserMessage ==
    [][\A i \in 1..Len(messages) :
          (RegeneratedAt(i) /\ messages[i].role = "user") =>
              TruncatedAndResent(SubSeq(messages, 1, i - 1),
                                 GetTextContent(messages[i]),
                                 messages[i].id)]_vars

\* C6 witness: Regenerate on the third message, a user message, of a
\* conversation that goes on after an earlier exchange
C6_Witness ==
    /\ Len(calls) >= 2
    /\ calls[1] = <<"regenerate", 3>>
    /\ calls[2] = <<"setMessages", StoredHistory(2)>>
    /\ Len(messages) = 3
    /\ status = "submitted"

\* the index of the nearest user message before index i; 0 when there is none
PrecedingUser(i) ==
    IF \E j \in 1..(i - 1) : messages[j].role = "user"
    THEN CHOOSE j \in 1..(i - 1) :
            /\ messages[j].role = "user"
            /\ \A k \in (j + 1)..(i - 1) : messages[k].role # "user"
    ELSE 0

C8_NoRegenerateWhileProcessing ==
    [][(status = "submitted" \/ status = "streaming") =>
            /\ NewCallsTo("regenerate") = <<>>
            /\ NewCallsTo("setMessages") = <<>>
            /\ NewCallsTo("onMessageRegenerate") = <<>>]_vars

\* C8 witness: a response is streaming into a conversation that shows the
\* Regenerate button on a user message and on an assistant message
C8_Witness ==
    /\ status = "streaming"
    /\ Len(messages) = 4
    /\ messages[2].role = "assistant" /\ HasContent(messages[2])
    /\ messages[3].role = "user"
    /\ HasContent(messages[4])

\* C9: a mounted hook sends its initial query automatically at most once, and
\* only if the initial query is not empty and the Chat was created without
\* messages (initialMessages was empty at mount), whatever the status and the
\* initialMessages prop do later.
C9_AutoSendOnceOnlyWithoutInitialMessages ==
    /\ autoSends <= 1
    /\ autoSends > 0 => (Truthy(initialQuery) /\ chatInit = <<>>)

\* C10: the loading indicator shows exactly when the chat is processing and
\* the message list is empty, or ends with a user message, or ends with an
\* assistant message for which hasContent is false.
C10_LoadingIndicatorRule ==
    agentMounted =>
        (ShowLoadingIndicator(messages, status) <=>
            /\ status \in {"submitted", "streaming"}
            /\ \/ messages = <<>>
               \/ messages[Len(messages)].role = "user"
               \/ /\ messages[Len(messages)].role = "assistant"
                  /\ ~HasContent(messages[Len(messages)]))

\* C10 witness: a response is streaming and its message holds a step marker
\* and a whitespace-only text so far: the indicator shows
C10_Witness ==
    /\ status = "streaming"
    /\ messages # <<>>
    /\ messages[Len(messages)].role = "assistant"
    /\ messages[Len(messages)].parts = <<StepStartPart, TextPart(<<" ">>)>>
    /\ ShowLoadingIndicator(messages, status)

\* the characters of the text parts of message m
TextChars(m) ==
    UNION {{m.parts[i].text[k] : k \in 1..Len(m.parts[i].text)} :
             i \in {j \in 1..Len(m.parts) : m.parts[j].type = "text"}}

\* C11: hasContent(m) holds exactly when the texts of the text parts of m,
\* joined in order, are not blank after trimming (some text part holds a
\* character other than white space), or m has a part whose type starts with
\* "tool-"; it is false for a message without parts and for one whose parts
\* are all whitespace-only texts.
C11_HasContentRule ==
    \A i \in 1..Len(messages) :
        LET m == messages[i]
            tools == {j \in 1..Len(m.parts) : m.parts[j].type = "tool-display_files"}
        IN  /\ HasContent(m) <=> (TextChars(m) \ {" "} # {} \/ tools # {})
            /\ HasContent(m) <=> (Trim(GetTextContent(m)) # <<>> \/ tools # {})
            /\ m.parts = <<>> => ~HasContent(m)
            /\ (\A j \in 1..Len(m.parts) : m.parts[j] = TextPart(<<" ">>)) => ~HasContent(m)

\* C11 witness: an assistant message whose parts are two whitespace-only
\* texts, without content
C11_Witness ==
    /\ messages # <<>>
    /\ messages[Len(messages)].parts = <<TextPart(<<" ">>), TextPart(<<" ">>)>>
    /\ ~HasContent(messages[Len(messages)])

\* ------------------------------------------------------------------ properties: chat history
\* the texts the step just taken wrote to the store, in order
SetItemTexts ==
    LET w == SelectSeq(calls, LAMBDA c : c[1] = "setItem")
    IN  [i \in 1..Len(w) |-> w[i][2]]

\* the step just taken is the mount of SearchCommand
MountStep == ~mounted /\ mounted'

\* C12: a message list that SearchCommand writes to the store under a key
\* that is set is the list that parsing the stored text gives back, message by
\* message in the same order; and a SearchCommand mounted afresh on a store
\* holding such a text has exactly the parsed list as its chat history.
C12_HistoryRoundTrips ==
    /\ []((mounted /\ SetItemTexts # <<>>) =>
            /\ StorageEnabled
            /\ sessionStorage = SetItemTexts[Len(SetItemTexts)]
            /\ sessionStorage = Stringify(chatHistory)
            /\ JsonParse(sessionStorage) = chatHistory)
    /\ [][(MountStep /\ StorageEnabled /\ sessionStorage.kind = "json") =>
            /\ sessionStorage' = sessionStorage
            /\ chatHistory' = JsonParse(sessionStorage)
            /\ Stringify(chatHistory') = sessionStorage]_vars

\* C12 witness: a conversation of this session, a user message and a reply
\* holding a tool part, is the chat history after the page was loaded again
C12_Witness ==
    /\ mounted
    /\ calls = << <<"getItem", sessionStorage>> >>
    /\ Len(chatHistory) = 2
    /\ chatHistory[1].id = 1
    /\ chatHistory[2].parts = <<ToolPart("output-available")>>

\* ------------------------------------------------------------------ properties: tool actions, submit
\* the step just taken is the dispatch of action a by a tool-result renderer,
\* in a SearchAgent that was (n) or was not passed onNavigate
Dispatched(a, n) ==
    /\ calls' # <<>>
    /\ calls'[1][1] = "toolAction"
    /\ calls'[1][2] = a
    /\ calls'[1][3] = n

C14_OtherActionsForwardedOnly ==
    [][\A a \in ToolActions : \A n \in BOOLEAN :
          (Dispatched(a, n) /\ a.type # "navigate") =>
              /\ calls' = << <<"toolAction", a, n>>, <<"onToolAction", a>> >>
              /\ NewCallsTo("onNavigate") = <<>>
              /\ NewCallsTo("onClose") = <<>>
              /\ <<messages', status', inputValue'>> = <<messages, status, inputValue>>]_vars

\* C14 witness: an action of type "open" was dispatched and forwarded
C14_Witness ==
    /\ Len(calls) = 2
    /\ calls[1] = <<"toolAction", [type |-> "open", payload |-> "/b"], TRUE>>
    /\ calls[2] = <<"onToolAction", [type |-> "open", payload |-> "/b"]>>

\* C15: a submit in SearchAgent whose input is not blank after trimming, made
\* while the chat is not processing, sends the input text as typed as one
\* user message and empties the input box; any other submit sends nothing
\* and leaves the input text and the messages as they are.
C15_SubmitGuard ==
    [][SaSubmit =>
          IF Trim(inputValue) # <<>> /\ status # "submitted" /\ status # "streaming"
          THEN /\ NewCallsTo("sendMessage") = << <<"sendMessage", inputValue>> >>
               /\ inputValue' = <<>>
               /\ Len(messages') = Len(messages) + 1
               /\ SubSeq(messages', 1, Len(messages)) = messages
               /\ messages'[Len(messages')].role = "user"
               /\ messages'[Len(messages')].parts = <<TextPart(inputValue)>>
               /\ status' = "submitted"
          ELSE /\ NewCallsTo("sendMessage") = <<>>
               /\ inputValue' = inputValue
               /\ messages' = messages
               /\ status' = status]_vars

\* C15 witness: the text "a" was submitted after an earlier exchange: it is
\* sent, the input box is empty and the chat is processing
C15_Witness ==
    /\ calls # <<>>
    /\ calls[1] = <<"sendMessage", <<"a">>>>
    /\ inputValue = <<>>
    /\ status = "submitted"
    /\ Len(messages) = 3

\* ------------------------------------------------------------------ properties: failure, hydration, store
\* C16: when an onSearch promise rejects, the results become empty, the
\* loading flag becomes false, the error is logged, onSearch is not called
\* and no timeout is set (no retry), and the query, the facet, the mode and
\* the dialog stay as they are.
C16_SearchFailureGivesEmptyResults ==
    [][(\E i \in 1..Len(calls') : calls'[i][1] = "console.error") =>
            /\ SearchSettled
            /\ calls' = << <<"console.error">> >>
            /\ results' = <<>>
            /\ isLoading' = FALSE
            /\ timer' = timer
            /\ Len(inflight') = Len(inflight) - 1
            /\ <<query', searchType', mode', open', agentQuery'>>
                    = <<query, searchType, mode, open, agentQuery>>]_vars

\* C16 witness: the search for "aa" failed while results of the search for
\* "a" cannot be shown any more: the list is empty, nothing is pending
C16_Witness ==
    /\ calls = << <<"console.error">> >>
    /\ query = <<"a", "a">>
    /\ results = <<>>
    /\ ~isLoading
    /\ timer = <<>>
    /\ inflight = <<>>

\* C17: the mount of SearchCommand with a storage key reads the store once,
\* and no later step reads it; when the store holds nothing or a text that
\* is not JSON, the chat history is empty after the mount, Resume Chat is not
\* offered, the component is hydrated and no error is logged.
C17_HydrationToleratesBadStore ==
    [][/\ (MountStep /\ chatHistoryStorageKey # Null) =>
              calls' = << <<"getItem", sessionStorage>> >>
       /\ (\E i \in 1..Len(calls') : calls'[i][1] = "getItem") => MountStep
       /\ (MountStep /\ (sessionStorage = NoItem \/ sessionStorage = Garbage)) =>
              /\ chatHistory' = <<>>
              /\ isHydrated'
              /\ ~(isHydrated' /\ Len(chatHistory') > 0)
              /\ sessionStorage' = sessionStorage
              /\ \A i \in 1..Len(calls') : calls'[i][1] # "console.error"]_vars

\* C17 witness: mounted on a store whose text is not JSON
C17_Witness ==
    /\ mounted
    /\ sessionStorage = Garbage
    /\ calls = << <<"getItem", Garbage>> >>
    /\ isHydrated
    /\ chatHistory = <<>>

\* the step just taken told SearchCommand of a change of the agent's
\* messages, or was Enter into Agent mode, or Clear history
HistorySet ==
    \/ \E i \in 1..Len(calls') : calls'[i][1] \in {"onMessagesChange", "onClearHistory"}
    \/ (mode = "quick" /\ mode' = "agent" /\ agentQuery' # <<>>)

\* C18: with a storage key, after every step in which the agent reports a
\* change of its messages, after Enter into Agent mode and after Clear
\* history, the store holds the serialization of the chat history
\* SearchCommand has in memory, and the store changes in no other step; with a
\* null key no step reads or writes the store.
C18_StoreIsWrittenThrough ==
    [][/\ (chatHistoryStorageKey # Null /\ HistorySet) =>
              /\ sessionStorage' = Stringify(chatHistory')
              /\ NewCallsTo("setItem") # <<>>
              /\ NewCallsTo("setItem")[Len(NewCallsTo("setItem"))]
                     = <<"setItem", Stringify(chatHistory')>>
       /\ (chatHistoryStorageKey # Null /\ mounted /\ mounted'
                /\ chatHistory' # chatHistory) =>
              sessionStorage' = Stringify(chatHistory')
       /\ sessionStorage' # sessionStorage => (chatHistoryStorageKey # Null /\ HistorySet)
       /\ chatHistoryStorageKey = Null =>
              /\ sessionStorage' = sessionStorage
              /\ NewCallsTo("setItem") = <<>>
              /\ NewCallsTo("getItem") = <<>>]_vars

\* C18 witness: the reply to the seed query has received a tool part, and the
\* store holds the two messages
C18_Witness ==
    /\ chatHistoryStorageKey # Null
    /\ status = "streaming"
    /\ Len(chatHistory) = 2
    /\ chatHistory[2].parts # <<>>
    /\ chatHistory = messages
    /\ sessionStorage = Stringify(messages)
    /\ Len(calls) = 2
    /\ calls[2] = <<"setItem", Stringify(messages)>>

\* C19: every onMessagesChange call of the hook carries a non-empty list;
\* a step that leaves a changed, non-empty message list forwards it, as the
\* last list forwarded; a step that leaves an empty list (the mount without
\* messages, clearMessages, a truncation that removes everything) forwards
\* nothing.
C19_ForwardsNonEmptyListsOnly ==
    [][/\ \A i \in 1..Len(Forwarded(calls')) : Forwarded(calls')[i] # <<>>
       /\ (messages' # messages /\ messages' # <<>>) =>
              /\ Forwarded(calls') # <<>>
              /\ Forwarded(calls')[Len(Forwarded(calls'))] = messages'
       /\ (messages' = <<>> /\ (messages # <<>> \/ ~agentMounted)) =>
              Forwarded(calls') = <<>>
       /\ (messages' = messages /\ agentMounted) => Forwarded(calls') = <<>>]_vars

\* C19 witness: clearMessages has emptied a conversation and nothing was
\* forwarded
C19_Witness ==
    /\ agentMounted
    /\ messages = <<>>
    /\ chatInit # <<>>
    /\ calls = << <<"clearMessages">> >>

\* C20: in Quick mode, selecting another search type while the query is not
\* empty drops the pending debounce timeout and sets one for the current query
\* and the new type, leaving the query, the results and the searches under way
\* as they are and calling nothing; when that timeout expires for a query
\* that is not blank, onSearch is called with the current query and the type
\* selected last.
C20_FacetChangeSearchesAgain ==
    [][/\ (searchType' # searchType /\ query # <<>>) =>
              /\ mode = "quick" /\ mode' = "quick"
              /\ timer' = <<[q |-> query, st |-> searchType']>>
              /\ query' = query
              /\ results' = results
              /\ inflight' = inflight
              /\ calls' = <<>>
       /\ (TimerExpired /\ Trim(query) # <<>>) =>
              /\ timer = <<[q |-> query, st |-> searchType]>>
              /\ NewCallsTo("onSearch") = << <<"onSearch", query', searchType', Limit>> >>
              /\ isLoading']_vars

\* C20 witness: a search for "a" has returned, and a second search for "a"
\* is under way for the other search type
C20_Witness ==
    /\ mode = "quick"
    /\ query = <<"a">>
    /\ results = <<SearchResult(<<"a">>)>>
    /\ searchType = "semantic"
    /\ calls = << <<"onSearch", <<"a">>, "semantic", Limit>> >>
    /\ isLoading
    /\ timer = <<>>

\* ------------------------------------------------------------------ properties: mode transitions
\* the step just taken is Enter switching from Quick to Agent mode
EnteredAgent == mode = "quick" /\ mode' = "agent" /\ agentQuery' # <<>>

\* C21: Enter from Quick to Agent mode starts a fresh conversation whatever
\* history there was: the handler empties the chat history and, with a storage
\* key, first writes the empty list to the store; the agent's chat is created
\* with no messages; and when the turn ends the history and the store hold
\* nothing but the seed message the hook has sent.
C21_EnterStartsFreshConversation ==
    [][EnteredAgent =>
          /\ chatInit' = <<>>
          /\ StorageEnabled =>
                /\ calls' # <<>>
                /\ calls'[1] = <<"setItem", Stringify(<<>>)>>
                /\ sessionStorage' = Stringify(chatHistory')
          /\ ~StorageEnabled => (NewCallsTo("setItem") = <<>>
                                  /\ sessionStorage' = sessionStorage)
          /\ messages' = <<UserMessage(nextId, query)>>
          /\ chatHistory' = messages'
          /\ initialMessages' = chatHistory'
          /\ \A i \in 1..Len(chatHistory) : \A k \in 1..Len(chatHistory') :
                chatHistory'[k].id # chatHistory[i].id]_vars

\* C21 witness: after Enter the store was first written with the empty list,
\* and the seed message of the new conversation is all that the history and
\* the store hold
C21_Witness ==
    /\ mode = "agent"
    /\ StorageEnabled
    /\ calls # <<>>
    /\ calls[1] = <<"setItem", Stringify(<<>>)>>
    /\ chatInit = <<>>
    /\ Len(chatHistory) = 1
    /\ chatHistory[1].id = 1
    /\ sessionStorage = Stringify(chatHistory)
    /\ \E i \in 1..Len(calls) : calls[i] = <<"autoSend", agentQuery>>

\* the step just taken is the Back action of the agent
WentBack == calls' # <<>> /\ calls'[1] = <<"onBack">>

\* C22: the Back action is taken in Agent mode and leaves the mode Quick and
\* the seed query empty; the chat history, the store, the quick-search query
\* and the dialog stay as they were, and nothing is written to the store.
C22_BackKeepsHistory ==
    [][WentBack =>
          /\ mode = "agent"
          /\ mode' = "quick"
          /\ agentQuery' = <<>>
          /\ chatHistory' = chatHistory
          /\ sessionStorage' = sessionStorage
          /\ NewCallsTo("setItem") = <<>>
          /\ query' = query
          /\ open' = open
          /\ ~agentMounted']_vars

\* C22 witness: Back was taken from a conversation seeded by Enter: the
\* history and the store still hold it
C22_Witness ==
    /\ calls = << <<"onBack">> >>
    /\ mode = "quick"
    /\ agentQuery = <<>>
    /\ query # <<>>
    /\ Len(chatHistory) = 2
    /\ chatHistory[1].id > 0
    /\ sessionStorage = Stringify(chatHistory)

\* the step just taken is Resume Chat
Resumed == mode = "quick" /\ mode' = "agent" /\ agentQuery' = <<>>

\* C23: Resume Chat is taken only with agent mode enabled, hydration done and
\* a chat history that is not empty; it enters Agent mode with an empty seed
\* query and a chat created with the history as its messages, leaves the
\* history and the stored text as they were, and sends nothing; and no
\* message is ever sent automatically in a session entered that way.
C23_ResumeKeepsHistoryAndSendsNothing ==
    /\ [][Resumed =>
            /\ enableAgentMode
            /\ isHydrated
            /\ chatHistory # <<>>
            /\ initialQuery' = <<>>
            /\ chatInit' = chatHistory
            /\ messages' = chatHistory
            /\ chatHistory' = chatHistory
            /\ sessionStorage' = sessionStorage
            /\ status' = "ready"
            /\ NewCallsTo("sendMessage") = <<>>
            /\ NewCallsTo("autoSend") = <<>>]_vars
    /\ []((agentMounted /\ agentQuery = <<>>) =>
            (autoSends = 0 /\ CallsTo("autoSend") = <<>>))

\* C23 witness: the history found in the store at mount was resumed
C23_Witness ==
    /\ mode = "agent"
    /\ agentQuery = <<>>
    /\ agentMounted
    /\ status = "ready"
    /\ chatInit = StoredHistory(MaxStored)
    /\ messages = chatInit
    /\ chatHistory = messages
    /\ sessionStorage = Stringify(StoredHistory(MaxStored))
    /\ calls # <<>> /\ calls[1][1] = "onMessagesChange"

\* the step just taken is Clear history
Cleared == calls' # <<>> /\ calls'[1] = <<"onClearHistory">>

\* C24: Clear history is taken in Agent mode and leaves the mode Agent and the
\* seed query as it was; the chat history is empty after it and, with a
\* storage key, so is the stored list; no message is sent in that step, and the
\* seed query is sent at most once in a session whatever is cleared.
C24_ClearEmptiesHistoryAndStaysInAgent ==
    /\ [][Cleared =>
            /\ mode = "agent" /\ mode' = "agent"
            /\ agentQuery' = agentQuery
            /\ chatHistory' = <<>>
            /\ initialMessages' = <<>>
            /\ StorageEnabled => sessionStorage' = Stringify(<<>>)
            /\ ~StorageEnabled => sessionStorage' = sessionStorage
            /\ NewCallsTo("sendMessage") = <<>>
            /\ NewCallsTo("autoSend") = <<>>
            /\ autoSends' = autoSends
            /\ status' = status]_vars
    /\ [](mounted => autoSends <= 1)

\* C24 witness: the conversation seeded by Enter was cleared after its reply
\* had ended
C24_Witness ==
    /\ calls # <<>> /\ calls[1] = <<"onClearHistory">>
    /\ mode = "agent"
    /\ agentQuery # <<>>
    /\ status = "ready"
    /\ initialQuerySent
    /\ autoSends = 1
    /\ chatHistory = <<>>
    /\ sessionStorage = Stringify(<<>>)

\* Clear history was taken in this agent session and the agent's message
\* list has not changed since: SearchCommand's history is empty while the
\* agent still holds messages
AfterClear == agentMounted /\ mode = "agent" /\ messages # <<>> /\ chatHistory = <<>>

\* C27: after Clear history, the messages the conversation held before the
\* clear are in no later chat history and in no later stored list of the same
\* agent session: the next change of the agent's message list leaves a
\* history, and a store, without any of them.
C27_ClearedMessagesNeverReappear ==
    [][(AfterClear /\ agentMounted') =>
          /\ \A i \in 1..Len(chatHistory') : \A k \in 1..Len(messages) :
                chatHistory'[i].id # messages[k].id
          /\ (StorageEnabled /\ sessionStorage'.kind = "json") =>
                \A i \in 1..Len(JsonParse(sessionStorage')) : \A k \in 1..Len(messages) :
                    JsonParse(sessionStorage')[i].id # messages[k].id]_vars

\* C30: a step that closes the dialog of a mounted SearchCommand leaves the
\* chat history and the store as they were and writes nothing; so does the
\* step that opens it again, and in Quick mode with agent mode enabled a
\* history that is not empty is offered for Resume Chat.  While SearchCommand
\* stays mounted, a history that is not empty becomes empty by Clear history
\* only, and the empty list is written to the store by Clear history and by
\* Enter into Agent mode only.
C30_CloseKeepsHistory ==
    /\ [][/\ (open /\ ~open' /\ mounted') =>
                /\ chatHistory' = chatHistory
                /\ sessionStorage' = sessionStorage
                /\ NewCallsTo("setItem") = <<>>
          /\ (mounted /\ ~open /\ open') =>
                /\ chatHistory' = chatHistory
                /\ sessionStorage' = sessionStorage
          /\ (mounted /\ mounted' /\ chatHistory # <<>> /\ chatHistory' = <<>>) =>
                Cleared
          /\ (\E i \in 1..Len(calls') : calls'[i] = <<"setItem", Stringify(<<>>)>>) =>
                (Cleared \/ EnteredAgent)]_vars
    /\ []((mounted /\ open /\ mode = "quick" /\ enableAgentMode /\ chatHistory # <<>>)
            => ResumeAvailable)

\* C30 witness: the dialog was closed on a conversation of this session, and
\* the history and the store still hold it
C30_Witness ==
    /\ ~open
    /\ calls # <<>>
    /\ calls[Len(calls)] = <<"onOpenChange", FALSE>>
    /\ Len(chatHistory) = 2
    /\ chatHistory[1].id > 0
    /\ sessionStorage = Stringify(chatHistory)
    /\ ~agentMounted

\* C29: no debounce timeout is pending in Agent mode: the switch to Agent
\* mode cancels the pending one and none is set until the mode is Quick
\* again; and every onSearch call is made in Quick mode, by the expiry of a
\* timeout.
C29_NoSearchInAgentMode ==
    /\ [](mode = "agent" => timer = <<>>)
    /\ [][/\ (mode = "quick" /\ mode' = "agent") => timer' = <<>>
          /\ (mode = "agent" /\ mode' = "agent") => (timer' = <<>> /\ NewCallsTo("onSearch") = <<>>)
          /\ NewCallsTo("onSearch") # <<>> => (mode = "quick" /\ mode' = "quick" /\ timer # <<>>)
          /\ (mode = "agent" /\ mode' = "quick") =>
                timer' = <<[q |-> query', st |-> searchType']>>]_vars

\* C29 witness: Enter was pressed right after typing, no search was called,
\* and nothing is pending in Agent mode
C29_Witness ==
    /\ mode = "agent"
    /\ agentQuery = <<"a">>
    /\ timer = <<>>
    /\ inflight = <<>>
    /\ ~isLoading
    /\ results = <<>>
    /\ \E i \in 1..Len(calls) : calls[i] = <<"autoSend", <<"a">>>>

\* ------------------------------------------------------------------ properties: overlapping searches
\* the onSearch call at position i of those in flight settled in this step
SettledAt(i) ==
    /\ i \in 1..Len(inflight)
    /\ inflight' = SubSeq(inflight, 1, i - 1) \o SubSeq(inflight, i + 1, Len(inflight))

\* C25: a step in which an onSearch call resolves sets the results to the
\* list that call resolved with, whichever calls are still in flight and
\* whatever the query is by then, so once all calls have settled the results
\* are those of the call that settled last; the calls may settle in any order.
C25_LastResolvedResponseWins ==
    [][(SearchSettled /\ NewCallsTo("console.error") = <<>>) =>
          /\ \E i \in 1..Len(inflight) :
                /\ SettledAt(i)
                /\ results' \in ResultLists(inflight[i].q)
          /\ query' = query
          /\ timer' = timer]_vars

\* C25 witness: searches for "a" and for "aa" overlapped, the one for "a"
\* resolved last, and its result is shown for the query "aa" with nothing in
\* flight and no timeout pending
C25_Witness ==
    /\ open
    /\ mode = "quick"
    /\ query = <<"a", "a">>
    /\ results = <<SearchResult(<<"a">>)>>
    /\ inflight = <<>>
    /\ timer = <<>>
    /\ ~isLoading

\* C28: the loading flag is set in every state in which an onSearch call is
\* in flight
C28_LoadingWhileInFlight ==
    inflight # <<>> => isLoading

\* ------------------------------------------------------------------ properties: MessageBubble
\* C26: for every tool part of an assistant message in the conversation,
\* MessageBubble renders the registered renderer, with the part's output and
\* the action callback, if the part's state is output-available and a
\* renderer is registered for its tool; for every other tool part it renders
\* the indicator, with a check mark if the state is output-available and a
\* spinner otherwise.
C26_ToolPartRendering ==
    agentMounted =>
        \A i \in 1..Len(messages) : \A k \in 1..Len(BubbleToolCalls(messages[i])) :
            \A registered \in BOOLEAN :
                LET tool == BubbleToolCalls(messages[i])[k]
                    r    == RenderToolCall(tool, registered)
                IN  IF registered /\ tool.state = "output-available"
                    THEN r = [kind |-> "renderer", output |-> tool.output,
                              onAction |-> "onToolAction"]
                    ELSE r = [kind |-> "indicator",
                              mark |-> IF tool.state = "output-available"
                                       THEN "check" ELSE "spinner"]

=============================================================================
